---- MODULE Spec2Model ----
(***************************************************************************)
(* Volatility forecasting and backtesting framework:                       *)
(*   src/returns.py, src/vol_models/historical.py, src/vol_models/ewma.py, *)
(*   src/evaluation.py.                                                    *)
(*                                                                         *)
(* Real numbers are modelled as exact normalised rationals <<n, d>> with   *)
(* d > 0; the undefined marker (NaN) is <<0, 0>>.  A pandas Series is a    *)
(* record [index |-> sequence of timestamps, values |-> sequence of reals].*)
(* An optional argument is a sequence of length 0 (None) or 1.             *)
(***************************************************************************)
EXTENDS Integers, Sequences, FiniteSets, TLC

\* ------------------------------------------------------------------ bounds
MaxLen == 3
MaxWindow == 2
MaxPrice == 3

\* ------------------------------------------------------- program constants
TRADING_DAYS == 252

\* ------------------------------------------------------------ real numbers
Abs(x) == IF x < 0 THEN -x ELSE x

RECURSIVE GCD(_, _)
GCD(a, b) == IF b = 0 THEN a ELSE GCD(b, a % b)

NaN == <<0, 0>>
IsNaN(x) == x[2] = 0

Rat(n, d) ==
    IF d = 0 THEN NaN
    ELSE LET g == GCD(Abs(n), Abs(d))
             s == IF d < 0 THEN -1 ELSE 1
         IN  <<(s * n) \div g, (s * d) \div g>>

Num(n) == <<n, 1>>

RAdd(a, b) == IF IsNaN(a) \/ IsNaN(b) THEN NaN ELSE Rat(a[1] * b[2] + b[1] * a[2], a[2] * b[2])
RSub(a, b) == IF IsNaN(a) \/ IsNaN(b) THEN NaN ELSE Rat(a[1] * b[2] - b[1] * a[2], a[2] * b[2])
RMul(a, b) == IF IsNaN(a) \/ IsNaN(b) THEN NaN ELSE Rat(a[1] * b[1], a[2] * b[2])
RDiv(a, b) == IF IsNaN(a) \/ IsNaN(b) THEN NaN ELSE Rat(a[1] * b[2], a[2] * b[1])
RSq(a) == RMul(a, a)
RLt(a, b) == a[1] * b[2] < b[1] * a[2]

\* ------------------------------------------------------- sequence helpers
RECURSIVE SeqsUpTo(_, _)
SeqsUpTo(S, n) ==
    IF n = 0 THEN {<<>>}
    ELSE LET P == SeqsUpTo(S, n - 1)
         IN  P \cup {Append(p, x) : p \in {q \in P : Len(q) = n - 1}, x \in S}

Range(s) == {s[i] : i \in 1..Len(s)}

\* ------------------------------------------------------------ pandas model
\* Positions are 0-based as in Python; sequence element p lives at p + 1.
Series(idx, vals) == [index |-> idx, values |-> vals]
EmptySeries == Series(<<>>, <<>>)
SLen(s) == Len(s.values)

\* Python slice normalisation of one bound against a length n.
PyBound(b, n) ==
    LET c == IF b < 0 THEN b + n ELSE b
    IN  IF c < 0 THEN 0 ELSE IF c > n THEN n ELSE c

\* Positions selected by seq[lo:hi] on a sequence of length n.
PySlicePos(lo, hi, n) ==
    LET a == PyBound(lo, n)
        b == PyBound(hi, n)
    IN  IF a < b THEN [i \in 1..(b - a) |-> a + i - 1] ELSE <<>>

\* The rows of a series at the given 0-based positions.
TakePos(s, pos) ==
    Series([i \in 1..Len(pos) |-> s.index[pos[i] + 1]],
           [i \in 1..Len(pos) |-> s.values[pos[i] + 1]])

\* Series.iloc[lo:hi]
Iloc(s, lo, hi) == TakePos(s, PySlicePos(lo, hi, SLen(s)))

\* Series.dropna()
RECURSIVE ValidPos(_, _)
ValidPos(vals, i) ==
    IF i > Len(vals) THEN <<>>
    ELSE IF IsNaN(vals[i]) THEN ValidPos(vals, i + 1)
         ELSE <<i>> \o ValidPos(vals, i + 1)

DropNa(s) ==
    LET pos == ValidPos(s.values, 1)
    IN  Series([i \in 1..Len(pos) |-> s.index[pos[i]]],
               [i \in 1..Len(pos) |-> s.values[pos[i]]])

\* Series.tail(n)
Tail_(s, n) == IF n = 0 THEN Iloc(s, 0, 0) ELSE Iloc(s, -n, SLen(s))

RECURSIVE SumSeq(_)
SumSeq(vals) == IF vals = <<>> THEN Num(0) ELSE RAdd(vals[1], SumSeq(Tail(vals)))

\* A mean that is undefined as soon as one value is undefined (skipna=False).
Mean_noskip(vals) ==
    IF \E i \in 1..Len(vals) : IsNaN(vals[i]) THEN NaN
    ELSE RDiv(SumSeq(vals), Num(Len(vals)))

\* Series.mean() with skipna=True: the mean of the defined values, NaN if none.
Mean(vals) ==
    LET pos == ValidPos(vals, 1)
    IN  RDiv(SumSeq([i \in 1..Len(pos) |-> vals[pos[i]]]), Num(Len(pos)))

\* Series.var(ddof): NaN unless more than ddof defined values.
Var(vals, ddof) ==
    LET pos == ValidPos(vals, 1)
        xs  == [i \in 1..Len(pos) |-> vals[pos[i]]]
        n   == Len(xs)
        avg == RDiv(SumSeq(xs), Num(n))
    IN  IF n - ddof <= 0 THEN NaN
        ELSE RDiv(SumSeq([i \in 1..n |-> RSq(RSub(xs[i], avg))]), Num(n - ddof))

\* ------------------------------------------------------------- estimators
\* An estimator call either returns a value or raises.
Ok(v) == [ok |-> TRUE, value |-> v, error |-> "none"]
Raise(e) == [ok |-> FALSE, value |-> NaN, error |-> e]

\* A forecast that uses the population variance (ddof=0).
hist_forecast_population(train_returns, w) ==
    LET recent == Tail_(DropNa(train_returns), w)
    IN  IF SLen(recent) < w THEN Raise("ValueError")
        ELSE Ok(Var(recent.values, 0))

\* historical.forecast_next_variance(train_returns, window)
hist_forecast_next_variance(train_returns, w) ==
    LET recent == Tail_(DropNa(train_returns), w)
    IN  IF SLen(recent) < w THEN Raise("ValueError")
        ELSE Ok(Var(recent.values, 1))

\* A recursion that updates var[i] with the squared return of its own step.
RECURSIVE ewma_loop_current(_, _, _, _)
ewma_loop_current(var, r2, lam, i) ==
    IF i > Len(r2) THEN var
    ELSE ewma_loop_current(Append(var, RAdd(RMul(lam, var[i - 1]),
                                            RMul(RSub(Num(1), lam), r2[i]))),
                           r2, lam, i + 1)

\* lines 38-39 of ewma_variance: var[1..n-1] from var[0] and r2 (position p
\* of the code is element p + 1 here).
RECURSIVE ewma_loop(_, _, _, _)
ewma_loop(var, r2, lam, i) ==
    IF i > Len(r2) THEN var
    ELSE ewma_loop(Append(var, RAdd(RMul(lam, var[i - 1]),
                                    RMul(RSub(Num(1), lam), r2[i - 1]))),
                   r2, lam, i + 1)

EWMA_INIT_OBS == 10

\* Default starting variance of ewma_variance (initial_variance is None).
ewma_default_initial(r2) ==
    IF Len(r2) >= EWMA_INIT_OBS THEN Mean(SubSeq(r2, 1, EWMA_INIT_OBS)) ELSE Mean(r2)

\* ewma.ewma_variance(returns, lam, initial_variance); initial_variance is
\* optional (<<>> is None).
ewma_variance(rets, lam, initial_variance) ==
    IF ~(RLt(Num(0), lam) /\ RLt(lam, Num(1))) THEN Raise("ValueError")
    ELSE LET clean == DropNa(rets)
             r2    == [i \in 1..SLen(clean) |-> RSq(clean.values[i])]
             init  == IF initial_variance = <<>> THEN ewma_default_initial(r2)
                      ELSE initial_variance[1]
         IN  IF Len(r2) = 0 THEN Raise("IndexError")
             ELSE Ok(Series(clean.index, ewma_loop(<<init>>, r2, lam, 2)))

\* A forecast that folds the most recent squared return into the last value.
ewma_forecast_updated(train_returns, lam, initial_variance) ==
    LET variance_series == ewma_variance(train_returns, lam, initial_variance)
        clean == DropNa(train_returns)
    IN  IF ~variance_series.ok THEN Raise(variance_series.error)
        ELSE Ok(RAdd(RMul(lam, variance_series.value.values[SLen(variance_series.value)]),
                     RMul(RSub(Num(1), lam), RSq(clean.values[SLen(clean)]))))

\* ewma.forecast_next_variance(train_returns, lam, initial_variance)
ewma_forecast_next_variance(train_returns, lam, initial_variance) ==
    LET variance_series == ewma_variance(train_returns, lam, initial_variance)
    IN  IF ~variance_series.ok THEN Raise(variance_series.error)
        ELSE Ok(variance_series.value.values[SLen(variance_series.value)])

\* The callables registered with the harness: closures over the two estimators.
HistFunc(w) == [name |-> "hist", kind |-> "hist", window |-> w]
EwmaFunc == [name |-> "ewma", kind |-> "ewma", window |-> 0]
EWMA_FUNC_LAM == <<1, 2>>

CallFunc(func, train) ==
    IF func.kind = "hist" THEN hist_forecast_next_variance(train, func.window)
    ELSE ewma_forecast_next_variance(train, EWMA_FUNC_LAM, <<>>)

\* ------------------------------------------------------------ log_returns
\* np.log of a ratio is kept symbolic: ln_of is the argument (NaN stays NaN).
Log(x) == [ln_of |-> x]

\* Series.shift(1)
Shift1(s) ==
    Series(s.index, [i \in 1..SLen(s) |-> IF i = 1 THEN NaN ELSE s.values[i - 1]])

\* returns.log_returns(prices)
log_returns(prices) ==
    LET shifted == Shift1(prices)
    IN  Ok(Series(prices.index,
                  [i \in 1..SLen(prices) |-> Log(RDiv(prices.values[i], shifted.values[i]))]))

\* ------------------------------------------------- realized volatility
\* np.sqrt is kept symbolic: sqrt_of is the argument, NaN for NaN or negative.
Sqrt(x) == [sqrt_of |-> IF IsNaN(x) \/ RLt(x, Num(0)) THEN NaN ELSE x]
Square(v) == v.sqrt_of

\* A rolling sum with min_periods=1: partial windows at the start are summed.
RollingSum_partial(vals, w, i) ==
    IF i < w THEN SumSeq(SubSeq(vals, 1, i)) ELSE SumSeq(SubSeq(vals, i - w + 1, i))

\* Series.rolling(window=w).sum() at 1-based position i: needs w defined values.
RollingSum(vals, w, i) ==
    IF i < w THEN NaN ELSE SumSeq(SubSeq(vals, i - w + 1, i))

\* A DataFrame: row labels, column names in insertion order, one value
\* sequence per column.
DataFrame(idx, cols, data) == [index |-> idx, columns |-> cols, data |-> data]
ColPos(df, name) == CHOOSE j \in 1..Len(df.columns) : df.columns[j] = name
Column(df, name) == Series(df.index, df.data[ColPos(df, name)])

\* data[key] = col on a dict kept as two parallel sequences.
DictSet(d, key, col) ==
    IF key \in Range(d.columns)
    THEN [d EXCEPT !.data[ColPos(d, key)] = col]
    ELSE [d EXCEPT !.columns = Append(@, key), !.data = Append(@, col)]

\* The loop of windowed_realized_volatility over windows[j..]; the column
\* key f"rv_{w}" is the window itself.
RECURSIVE rv_loop(_, _, _, _, _)
rv_loop(data, r2, windows, ppy, j) ==
    IF j > Len(windows) THEN Ok(data)
    ELSE LET w == windows[j]
         IN  IF w <= 0 THEN Raise("ValueError")
             ELSE LET rv == [i \in 1..Len(r2) |->
                               Sqrt(RMul(RDiv(Num(ppy), Num(w)), RollingSum(r2, w, i)))]
                  IN  rv_loop(DictSet(data, w, rv), r2, windows, ppy, j + 1)

\* evaluation.windowed_realized_volatility(returns, windows, periods_per_year)
windowed_realized_volatility(rets, windows, periods_per_year) ==
    LET r2 == [i \in 1..SLen(rets) |-> RSq(rets.values[i])]
    IN  rv_loop(DataFrame(rets.index, <<>>, <<>>), r2, windows, periods_per_year, 1)

\* evaluation.windowed_realized_variance(returns, windows, periods_per_year)
windowed_realized_variance(rets, windows, periods_per_year) ==
    LET rv == windowed_realized_volatility(rets, windows, periods_per_year)
    IN  IF ~rv.ok THEN rv
        ELSE Ok([rv.value EXCEPT !.data =
                    [j \in 1..Len(@) |-> [i \in 1..Len(@[j]) |-> Square(@[j][i])]]])

\* --------------------------------------------------------------- scoring
HasLabel(idx, label) == \E i \in 1..Len(idx) : idx[i] = label
PosOf(idx, label) == CHOOSE i \in 1..Len(idx) : idx[i] = label

\* Series.loc[labels]: KeyError when a label is not in the index.
Loc(s, labels) ==
    IF \E i \in 1..Len(labels) : ~HasLabel(s.index, labels[i]) THEN Raise("KeyError")
    ELSE Ok(Series(labels, [i \in 1..Len(labels) |-> s.values[PosOf(s.index, labels[i])]]))

\* left.align(right, join="inner"): the rows <<label, left value, right value>>
\* of the labels present in both indexes.
RECURSIVE AlignInner(_, _, _)
AlignInner(left, right, i) ==
    IF i > SLen(left) THEN <<>>
    ELSE IF HasLabel(right.index, left.index[i])
         THEN <<[ts |-> left.index[i], left |-> left.values[i],
                 right |-> right.values[PosOf(right.index, left.index[i])]]>>
              \o AlignInner(left, right, i + 1)
         ELSE AlignInner(left, right, i + 1)

\* evaluation.mse_variance(pred, realized_var)
mse_variance(pred, realized_var) ==
    LET al == AlignInner(pred, realized_var, 1)
    IN  Mean([i \in 1..Len(al) |-> RSq(RSub(al[i].left, al[i].right))])

\* evaluation.mae_volatility(pred_vol, realized_var): |pred_vol - sqrt(realized)|.
\* The mean of the symbolic terms; mean() skips the undefined ones.
mae_volatility(pred_vol, realized_var) ==
    LET al == AlignInner(pred_vol, realized_var, 1)
        vol(r) == [ts |-> r.ts, left |-> r.left, right |-> Sqrt(r.right)]
        defined(r) == ~IsNaN(r.left.sqrt_of) /\ ~IsNaN(r.right.sqrt_of)
    IN  [mean_of |-> "abs(pred_vol - sqrt(realized_var))",
         terms   |-> SelectSeq([i \in 1..Len(al) |-> vol(al[i])], defined)]

QLIKE_EPS_INV == 100000000
QLIKE_EPS == <<1, QLIKE_EPS_INV>>

\* Series.clip(lower=eps) on one value; x < eps computed without overflow.
ClipEps(x) ==
    IF IsNaN(x) THEN NaN
    ELSE IF x[1] <= (x[2] - 1) \div QLIKE_EPS_INV THEN QLIKE_EPS ELSE x

\* evaluation.qlike_loss(pred_var, realized_var): log(safe_pred) + realized/safe_pred
qlike_loss(pred_var, realized_var) ==
    LET al == AlignInner(pred_var, realized_var, 1)
        safe(r) == [ts |-> r.ts, left |-> ClipEps(r.left), right |-> r.right]
        defined(r) == ~IsNaN(r.left) /\ ~IsNaN(r.right)
    IN  [mean_of |-> "log(safe_pred) + realized_var / safe_pred",
         terms   |-> SelectSeq([i \in 1..Len(al) |-> safe(al[i])], defined)]

\* A metrics row that loses its window key.
MetricsRow_nowindow(col, win, var_pred, realized_var) ==
    [model   |-> col,
     window  |-> <<>>,
     mse_var |-> mse_variance(var_pred, realized_var),
     mae_vol |-> mae_volatility(Series(var_pred.index,
                                       [i \in 1..SLen(var_pred) |-> Sqrt(var_pred.values[i])]),
                                realized_var),
     qlike   |-> qlike_loss(var_pred, realized_var)]

\* lines 133-140, 152-159: one metrics record
MetricsRow(col, win, var_pred, realized_var) ==
    [model   |-> col,
     window  |-> win,
     mse_var |-> mse_variance(var_pred, realized_var),
     mae_vol |-> mae_volatility(Series(var_pred.index,
                                       [i \in 1..SLen(var_pred) |-> Sqrt(var_pred.values[i])]),
                                realized_var),
     qlike   |-> qlike_loss(var_pred, realized_var)]

\* var_pred_raw * scale
Scaled(s, scale) == Series(s.index, [i \in 1..SLen(s) |-> RMul(s.values[i], scale)])

\* lines 128-140: realized_windows is None
RECURSIVE eval_single_loop(_, _, _, _)
eval_single_loop(metrics, forecast_var, realized_var, j) ==
    IF j > Len(forecast_var.columns) THEN metrics
    ELSE LET col == forecast_var.columns[j]
             var_pred == Column(forecast_var, col)
         IN  eval_single_loop(Append(metrics, MetricsRow(col, <<>>, var_pred, realized_var)),
                              forecast_var, realized_var, j + 1)

\* lines 146-160: the loops over columns j and windows i
RECURSIVE eval_window_loop(_, _, _, _, _, _, _)
eval_window_loop(metrics, forecast_var, realized_var_df, realized_windows, scale, j, i) ==
    IF j > Len(forecast_var.columns) THEN Ok(metrics)
    ELSE IF i > Len(realized_windows)
         THEN eval_window_loop(metrics, forecast_var, realized_var_df, realized_windows,
                               scale, j + 1, 1)
         ELSE LET col == forecast_var.columns[j]
                  var_pred == Scaled(Column(forecast_var, col), scale)
                  w == realized_windows[i]
                  realized_var == Loc(Column(realized_var_df, w), var_pred.index)
              IN  IF ~realized_var.ok THEN realized_var
                  ELSE eval_window_loop(
                           Append(metrics, MetricsRow(col, <<w>>, var_pred, realized_var.value)),
                           forecast_var, realized_var_df, realized_windows, scale, j, i + 1)

\* lines 162-167: DataFrame(metrics) and set_index; an empty metrics list has
\* no "model" column, so set_index raises.
MetricsTable(metrics) ==
    IF metrics = <<>> THEN Raise("KeyError") ELSE Ok(metrics)

\* evaluation.evaluate_forecasts(forecast_var, returns, realized_windows,
\*                               annualize_pred, periods_per_year)
evaluate_forecasts(forecast_var, rets, realized_windows, annualize_pred, periods_per_year) ==
    IF realized_windows = <<>>
    THEN LET r2 == Series(rets.index, [i \in 1..SLen(rets) |-> RSq(rets.values[i])])
             realized_var == Loc(r2, forecast_var.index)
         IN  IF ~realized_var.ok THEN realized_var
             ELSE MetricsTable(eval_single_loop(<<>>, forecast_var, realized_var.value, 1))
    ELSE LET realized_var_df ==
                 windowed_realized_variance(rets, realized_windows[1], periods_per_year)
             scale == IF annualize_pred THEN Num(periods_per_year) ELSE Num(1)
         IN  IF ~realized_var_df.ok THEN realized_var_df
             ELSE LET metrics == eval_window_loop(<<>>, forecast_var, realized_var_df.value,
                                                  realized_windows[1], scale, 1, 1)
                  IN  IF ~metrics.ok THEN metrics ELSE MetricsTable(metrics.value)

\* ------------------------------------------------- walk_forward_forecast
VARIABLES returns, model_funcs, start, expanding, window,
          pc, t, k, train, forecasts, index, calls, error, forecast_df

\* The frame of one call of a library function made directly by a caller:
\* the function, its arguments, whether it has finished and its outcome.
VARIABLES fn, args, done, result

call_vars == <<fn, args, done, result>>

wf_vars == <<returns, model_funcs, start, expanding, window,
             pc, t, k, train, forecasts, index, calls, error, forecast_df>>
wf_args == <<returns, model_funcs, start, expanding, window>>
vars == <<wf_vars, call_vars>>

\* No direct library call is in progress.
NoCall ==
    /\ fn = "walk_forward_forecast"
    /\ args = <<>>
    /\ done = FALSE
    /\ result = Raise("pending")

\* The harness is not running.
NoWalk ==
    /\ returns = EmptySeries
    /\ model_funcs = <<>>
    /\ start = 0
    /\ expanding = TRUE
    /\ window = <<>>
    /\ pc = "idle"
    /\ t = 0
    /\ k = 0
    /\ train = EmptySeries
    /\ forecasts = <<>>
    /\ index = <<>>
    /\ calls = <<>>
    /\ error = "none"
    /\ forecast_df = <<>>

\* Input domains.
Vals == {NaN, Num(1), Num(2)}
RangeIndex(n) == [i \in 1..n |-> i - 1]
DateIndex(n) == [i \in 1..n |-> 10 + 2 * i]
AllSeries(n) == {Series(idx, v) : idx \in {RangeIndex(n), DateIndex(n)},
                                  v \in {q \in SeqsUpTo(Vals, n) : Len(q) = n}}
ReturnSeries == UNION {AllSeries(n) : n \in 0..MaxLen}
ModelFuncSets == {<<>>, <<HistFunc(2)>>, <<EwmaFunc, HistFunc(2)>>, <<HistFunc(1), EwmaFunc>>}
Windows == {<<>>} \cup {<<w>> : w \in 0..MaxWindow}

\* A harness that also hands the target observation to the estimators.
TrainPos_lookahead(rets, tt, exp, win) ==
    IF exp THEN PySlicePos(0, tt + 1, SLen(rets))
    ELSE PySlicePos(tt - win[1] + 1, tt + 1, SLen(rets))

\* Positions of returns.iloc[:t] if expanding else returns.iloc[t - window : t]
TrainPos(rets, tt, exp, win) ==
    IF exp THEN PySlicePos(0, tt, SLen(rets))
    ELSE PySlicePos(tt - win[1], tt, SLen(rets))

\* line 43: train
TrainSlice(rets, tt, exp, win) == TakePos(rets, TrainPos(rets, tt, exp, win))

\* A harness that walks the estimators in reverse registration order.
ItemAt_reversed(funcs, j) == funcs[Len(funcs) + 1 - j]

\* line 44: the j-th item of model_funcs.items() (dicts iterate in insertion
\* order)
ItemAt(funcs, j) == funcs[j]

\* A harness that keys a row by the position of its target.
RowLabel_position(rets, tt) == tt

\* line 46: returns.index[t]
RowLabel(rets, tt) == rets.index[tt + 1]

\* A harness that swallows an estimator's exception and records NaN.
Invoke_swallow(func, tr) ==
    IF CallFunc(func, tr).ok THEN CallFunc(func, tr) ELSE Ok(NaN)

\* line 45: func(train), with no handler around it
Invoke(func, tr) == CallFunc(func, tr)

WFInit ==
    /\ returns \in ReturnSeries
    /\ model_funcs \in ModelFuncSets
    /\ start \in 0..MaxLen
    /\ expanding \in BOOLEAN
    /\ window \in Windows
    /\ pc = "enter"
    /\ t = 0
    /\ k = 0
    /\ train = EmptySeries
    /\ forecasts = <<>>
    /\ index = <<>>
    /\ calls = <<>>
    /\ error = "none"
    /\ forecast_df = <<>>
    /\ NoCall

\* lines 38-41: argument check, empty forecast lists and index
WalkEnter ==
    /\ pc = "enter"
    /\ IF ~expanding /\ window = <<>>
       THEN /\ pc' = "raised"
            /\ error' = "ValueError"
            /\ UNCHANGED <<forecasts, t>>
       ELSE /\ pc' = "for_t"
            /\ forecasts' = [j \in 1..Len(model_funcs) |-> <<>>]
            /\ t' = start
            /\ UNCHANGED error
    /\ UNCHANGED <<wf_args, k, train, index, calls, forecast_df, call_vars>>

\* lines 42-43: next target index and its training slice
WalkForT ==
    /\ pc = "for_t"
    /\ IF t < SLen(returns)
       THEN /\ train' = TrainSlice(returns, t, expanding, window)
            /\ k' = 1
            /\ pc' = "for_func"
       ELSE /\ pc' = "build"
            /\ UNCHANGED <<train, k>>
    /\ UNCHANGED <<wf_args, t, forecasts, index, calls, error, forecast_df, call_vars>>

\* lines 44-45: one estimator call; an exception leaves the function
WalkCallFunc ==
    /\ pc = "for_func"
    /\ k <= Len(model_funcs)
    /\ LET func == ItemAt(model_funcs, k)
           res  == Invoke(func, train)
       IN  /\ calls' = Append(calls, [t |-> t, name |-> func.name, train |-> train])
           /\ IF res.ok
              THEN /\ forecasts' = [forecasts EXCEPT ![k] = Append(@, res.value)]
                   /\ k' = k + 1
                   /\ UNCHANGED <<pc, error>>
              ELSE /\ pc' = "raised"
                   /\ error' = res.error
                   /\ UNCHANGED <<forecasts, k>>
    /\ UNCHANGED <<wf_args, t, train, index, forecast_df, call_vars>>

\* line 46: the row's timestamp
WalkAppendIndex ==
    /\ pc = "for_func"
    /\ k > Len(model_funcs)
    /\ index' = Append(index, RowLabel(returns, t))
    /\ t' = t + 1
    /\ pc' = "for_t"
    /\ UNCHANGED <<wf_args, k, train, forecasts, calls, error, forecast_df, call_vars>>

\* lines 47-48: the forecast table (one row per index entry)
WalkReturn ==
    /\ pc = "build"
    /\ forecast_df' = [i \in 1..Len(index) |->
                         [ts |-> index[i],
                          row |-> [j \in 1..Len(model_funcs) |-> forecasts[j][i]]]]
    /\ pc' = "returned"
    /\ UNCHANGED <<wf_args, t, k, train, forecasts, index, calls, error, call_vars>>

WFNext == WalkEnter \/ WalkForT \/ WalkCallFunc \/ WalkAppendIndex \/ WalkReturn

SpecWF == WFInit /\ [][WFNext]_vars

\* ------------------------------------------------- direct library calls
Call(f, outcome) ==
    /\ fn = f
    /\ ~done
    /\ done' = TRUE
    /\ result' = outcome
    /\ UNCHANGED <<fn, args, wf_vars>>

CallInit(fns, argset) ==
    /\ fn \in fns
    /\ args \in argset
    /\ done = FALSE
    /\ result = Raise("pending")
    /\ NoWalk

\* ---- ewma
EwmaVals == {NaN, Num(-1), Num(2)}
ShortHistories ==
    {Series(RangeIndex(Len(v)), v) : v \in SeqsUpTo(EwmaVals, MaxLen)}
\* Histories that reach the EWMA_INIT_OBS branch of the default start value.
LongHistories ==
    {Series(RangeIndex(EWMA_INIT_OBS + n),
            [i \in 1..(EWMA_INIT_OBS + n) |-> IF i \in S THEN Num(2) ELSE Num(-1)]) :
        n \in 0..1, S \in SUBSET {1, EWMA_INIT_OBS, EWMA_INIT_OBS + 1}}
Lams == {Rat(n, 4) : n \in 0..4}
InitialVariances == {<<>>, <<Num(1)>>, <<Rat(1, 2)>>}

EwmaInit ==
    CallInit({"ewma_variance", "ewma.forecast_next_variance"},
             [returns : ShortHistories \cup LongHistories, lam : Lams,
              initial_variance : InitialVariances])

CallEwmaVariance ==
    Call("ewma_variance", ewma_variance(args.returns, args.lam, args.initial_variance))

CallEwmaForecast ==
    Call("ewma.forecast_next_variance",
         ewma_forecast_next_variance(args.returns, args.lam, args.initial_variance))

EwmaNext == CallEwmaVariance \/ CallEwmaForecast

SpecEwma == EwmaInit /\ [][EwmaNext]_vars

\* ---- historical
HistVals == {NaN, Num(-1), Num(1), Num(2)}
HistInit ==
    CallInit({"historical.forecast_next_variance"},
             [train_returns : {Series(RangeIndex(Len(v)), v) :
                                  v \in SeqsUpTo(HistVals, MaxLen + 1)},
              window : -1..(MaxLen + 1)])

CallHistForecast ==
    Call("historical.forecast_next_variance",
         hist_forecast_next_variance(args.train_returns, args.window))

HistNext == CallHistForecast

SpecHist == HistInit /\ [][HistNext]_vars

\* ---- realized volatility / variance
WindowLists(hi) ==
    {<<>>} \cup {<<w>> : w \in 0..hi} \cup {<<w1, w2>> : w1 \in 0..hi, w2 \in 0..hi}

RVInit ==
    CallInit({"windowed_realized_volatility", "windowed_realized_variance"},
             [returns : ShortHistories, windows : WindowLists(MaxLen),
              periods_per_year : {TRADING_DAYS}])

CallRealizedVolatility ==
    Call("windowed_realized_volatility",
         windowed_realized_volatility(args.returns, args.windows, args.periods_per_year))

CallRealizedVariance ==
    Call("windowed_realized_variance",
         windowed_realized_variance(args.returns, args.windows, args.periods_per_year))

RVNext == CallRealizedVolatility \/ CallRealizedVariance

SpecRV == RVInit /\ [][RVNext]_vars

\* ---- log_returns
Prices ==
    UNION {{Series(idx, [i \in 1..n |-> Num(v[i])]) :
              idx \in {RangeIndex(n), DateIndex(n)},
              v \in {q \in SeqsUpTo(1..MaxPrice, n) : Len(q) = n}} : n \in 0..MaxLen}

LRInit == CallInit({"log_returns"}, [prices : Prices])

CallLogReturns == Call("log_returns", log_returns(args.prices))

LRNext == CallLogReturns

SpecLR == LRInit /\ [][LRNext]_vars

\* ---- evaluate_forecasts
\* A return series as log_returns leaves it (undefined first value) or with
\* the undefined value already dropped by the caller.
EvalReturns ==
    {Series(RangeIndex(Len(v)), v) :
        v \in {q \in SeqsUpTo({NaN, Num(1), Num(2)}, MaxLen) :
                 \A i \in 2..Len(q) : ~IsNaN(q[i])}}

\* Forecast tables: up to two rows at increasing timestamps (one of them may
\* lie outside the return series), column "a" of free values, column "b"
\* constant.
ForecastIndexes ==
    {<<>>} \cup {<<a>> : a \in 0..MaxLen}
           \cup {q \in {<<a, b>> : a \in 0..MaxLen, b \in 0..MaxLen} : q[1] < q[2]}
ForecastVals == {Num(0), Num(1)}
ForecastTables ==
    UNION {{DataFrame(idx, <<>>, <<>>)}
           \cup {DataFrame(idx, <<"a">>, <<a>>) :
                    a \in {q \in SeqsUpTo(ForecastVals, Len(idx)) : Len(q) = Len(idx)}}
           \cup {DataFrame(idx, <<"a", "b">>, <<a, [i \in 1..Len(idx) |-> Num(2)]>>) :
                    a \in {q \in SeqsUpTo(ForecastVals, Len(idx)) : Len(q) = Len(idx)}}
           : idx \in ForecastIndexes}

EvalInit ==
    CallInit({"evaluate_forecasts"},
             [forecast_var : ForecastTables, returns : EvalReturns,
              realized_windows : {<<>>} \cup {<<ws>> : ws \in WindowLists(MaxWindow)},
              annualize_pred : BOOLEAN, periods_per_year : {TRADING_DAYS}])

CallEvaluateForecasts ==
    Call("evaluate_forecasts",
         evaluate_forecasts(args.forecast_var, args.returns, args.realized_windows,
                            args.annualize_pred, args.periods_per_year))

EvalNext == CallEvaluateForecasts

SpecEval == EvalInit /\ [][EvalNext]_vars

\* ====================================================== checked properties

\* ---- walk_forward_forecast (SpecWF)

\* The return series that differ from `returns` only at positions >= tt.
Mutations(tt) ==
    {rB \in ReturnSeries :
        /\ rB.index = returns.index
        /\ \A i \in 1..SLen(returns) : i <= tt => rB.values[i] = returns.values[i]}

\* C1: no look-ahead.  Every training slice handed to an estimator for target
\* index t holds only observations of `returns` at positions strictly below t
\* (in expanding and in fixed-window mode), and every forecast of a returned
\* row with target index t is the same for every return series that agrees
\* with `returns` below t, whatever its values at positions >= t.
C1_NoLookAhead ==
    /\ \A c \in Range(calls) : \A i \in 1..SLen(c.train) :
          /\ HasLabel(returns.index, c.train.index[i])
          /\ PosOf(returns.index, c.train.index[i]) - 1 < c.t
          /\ c.train.values[i] = returns.values[PosOf(returns.index, c.train.index[i])]
    /\ pc = "returned" =>
          \A i \in 1..Len(forecast_df) : \A rB \in Mutations(start + i - 1) :
             \A j \in 1..Len(model_funcs) :
                CallFunc(model_funcs[j], TrainSlice(rB, start + i - 1, expanding, window))
                  = Ok(forecast_df[i].row[j])

\* A fixed-window run that returned at least two rows, so that the first row
\* has later observations that could have leaked into it.
C1_Witness ==
    /\ pc = "returned"
    /\ ~expanding
    /\ Len(forecast_df) >= 2
    /\ Len(model_funcs) >= 1
    /\ Cardinality(Mutations(start)) > 1

\* C2: estimator calls happen in ascending target index and, within one target
\* index, in registration order, all on one training slice; a run that returns
\* has called every estimator exactly once per target index.
C2_RegistrationOrder ==
    LET N == Len(model_funcs)
    IN  /\ \A i \in 1..Len(calls) :
              /\ calls[i].t = start + ((i - 1) \div N)
              /\ calls[i].name = model_funcs[((i - 1) % N) + 1].name
        /\ \A i, j \in 1..Len(calls) :
              calls[i].t = calls[j].t => calls[i].train = calls[j].train
        /\ pc = "returned" =>
              Len(calls) = N * (IF SLen(returns) > start THEN SLen(returns) - start ELSE 0)

\* A returned run of two estimators over at least two target indices.
C2_Witness ==
    /\ pc = "returned"
    /\ Len(model_funcs) = 2
    /\ Len(calls) >= 4

FuncNamed(name) == CHOOSE f \in Range(model_funcs) : f.name = name

\* C3: fail-fast.  An estimator call that raises is the last call of the run:
\* the harness is left with that very error, no estimator is invoked after it
\* (the raised state has no successor) and no forecast table is returned.
C3_FailFast ==
    /\ \A i \in 1..Len(calls) :
          LET res == CallFunc(FuncNamed(calls[i].name), calls[i].train)
          IN  ~res.ok => /\ i = Len(calls)
                         /\ pc = "raised"
                         /\ error = res.error
    /\ pc = "raised" => forecast_df = <<>> /\ ~ENABLED WFNext

\* An estimator raised with estimators still to run at this index and target
\* indices still to come.
C3_Witness ==
    /\ pc = "raised"
    /\ calls # <<>>
    /\ k < Len(model_funcs)
    /\ t + 1 < SLen(returns)

\* ---- ewma_variance (SpecEwma)
Defined(x) == ~IsNaN(x)
ValidReturns(s) == SelectSeq(s.values, Defined)
InUnitInterval(lam) == lam[1] > 0 /\ lam[1] < lam[2]

\* C4: EWMA recursion.  For lambda in (0,1) and a history with at least two
\* valid observations, ewma_variance returns one variance per valid
\* observation with var[0] the starting variance (the supplied one, else the
\* mean square of the first 10 valid returns, or of all if fewer) and
\* var[i] = lambda * var[i-1] + (1 - lambda) * r[i-1]^2 for every i >= 1.
C4_EwmaRecursion ==
    (fn = "ewma_variance" /\ done /\ InUnitInterval(args.lam)
        /\ Len(ValidReturns(args.returns)) >= 2) =>
       LET r   == ValidReturns(args.returns)
           m   == IF Len(r) < 10 THEN Len(r) ELSE 10
           v0  == IF args.initial_variance # <<>> THEN args.initial_variance[1]
                  ELSE RDiv(SumSeq([i \in 1..m |-> RMul(r[i], r[i])]), Num(m))
           var == result.value.values
       IN  /\ result.ok
           /\ Len(var) = Len(r)
           /\ var[1] = v0
           /\ \A i \in 2..Len(var) :
                 var[i] = RAdd(RMul(args.lam, var[i - 1]),
                               RMul(RSub(Num(1), args.lam), RMul(r[i - 1], r[i - 1])))

\* A recursion over a history with an undefined marker in it, started from
\* the default variance.
C4_Witness ==
    /\ fn = "ewma_variance"
    /\ done
    /\ result.ok
    /\ args.initial_variance = <<>>
    /\ Len(ValidReturns(args.returns)) >= 2
    /\ Len(ValidReturns(args.returns)) < SLen(args.returns)
    /\ Len(result.value.values) = Len(ValidReturns(args.returns))

\* ---- historical.forecast_next_variance (SpecHist)
\* Sample variance with denominator n - 1, from the sums of x and x^2.
SampleVariance(xs) ==
    LET n  == Len(xs)
        s1 == SumSeq(xs)
        s2 == SumSeq([i \in 1..n |-> RMul(xs[i], xs[i])])
    IN  RDiv(RSub(RMul(Num(n), s2), RMul(s1, s1)), Num(n * (n - 1)))

\* C5: rolling forecast.  For a window w >= 1, with the undefined markers
\* removed: if at least w valid observations remain the forecast is the sample
\* variance (denominator w - 1) of exactly the last w of them, whatever the
\* older observations are; otherwise the call raises ValueError.
C5_RollingForecast ==
    (fn = "historical.forecast_next_variance" /\ done /\ args.window >= 1) =>
       LET r == ValidReturns(args.train_returns)
           n == Len(r)
           w == args.window
       IN  IF n >= w
           THEN result = Ok(SampleVariance(SubSeq(r, n - w + 1, n)))
           ELSE result = Raise("ValueError")

\* A window of two over a longer history that holds an undefined marker and
\* has a positive variance forecast.
C5_Witness ==
    /\ fn = "historical.forecast_next_variance"
    /\ done
    /\ args.window = 2
    /\ Len(ValidReturns(args.train_returns)) = 3
    /\ SLen(args.train_returns) > 3
    /\ result.ok
    /\ result.value[1] > 0

\* ---- windowed_realized_variance (SpecRV)
RVCallDone ==
    /\ fn = "windowed_realized_variance"
    /\ done
    /\ \A j \in 1..Len(args.windows) : args.windows[j] > 0

\* (periods_per_year / w) * sum of the squared returns at positions i-w+1..i
RealizedSum(w, i) ==
    LET r == args.returns.values
    IN  RMul(Rat(args.periods_per_year, w),
             SumSeq([j \in 1..w |-> RMul(r[i - w + j], r[i - w + j])]))

\* C6 as stated: for every window w > 0 and position, the realized variance is
\* (periods_per_year / w) * the sum of the w squared returns ending at the
\* position, and it is undefined exactly for the first w - 1 points.
C6_Original ==
    RVCallDone =>
       /\ result.ok
       /\ \A j \in 1..Len(args.windows) : \A i \in 1..SLen(args.returns) :
             LET w == args.windows[j]
                 v == Column(result.value, w).values[i]
             IN  /\ IsNaN(v) <=> i < w
                 /\ ~IsNaN(v) => v = RealizedSum(w, i)

\* C6 (amended): for every window w > 0 and position, the realized variance is
\* (periods_per_year / w) * the sum of the w squared returns ending at the
\* position; it is undefined for the first w - 1 points and at every later
\* position whose w observations include an undefined return, and defined
\* everywhere else.
C6_RealizedVariance ==
    RVCallDone =>
       /\ result.ok
       /\ result.value.index = args.returns.index
       /\ \A j \in 1..Len(args.windows) : \A i \in 1..SLen(args.returns) :
             LET w == args.windows[j]
                 v == Column(result.value, w).values[i]
                 r == args.returns.values
             IN  /\ IsNaN(v) <=> (i < w \/ \E q \in (i - w + 1)..i : IsNaN(r[q]))
                 /\ ~IsNaN(v) => v = RealizedSum(w, i)

\* A window of two over three returns, the first undefined: the variance is
\* undefined at the first two points and defined at the third.
C6_Witness ==
    /\ RVCallDone
    /\ result.ok
    /\ args.windows = <<2>>
    /\ SLen(args.returns) = 3
    /\ IsNaN(args.returns.values[1])
    /\ IsNaN(Column(result.value, 2).values[2])
    /\ ~IsNaN(Column(result.value, 2).values[3])

\* ---- evaluate_forecasts (SpecEval)
EvalDone == fn = "evaluate_forecasts" /\ done
WindowsGiven == args.realized_windows # <<>>
WindowList == args.realized_windows[1]
Rows == result.value
RowKey(row) == <<row.model, row.window>>

\* The key set the arguments call for.
ExpectedKeys ==
    IF WindowsGiven
    THEN {<<c, <<w>>>> : c \in Range(args.forecast_var.columns), w \in Range(WindowList)}
    ELSE {<<c, <<>>>> : c \in Range(args.forecast_var.columns)}

\* C7 as stated: the returned metrics table holds exactly one row per key, and
\* its key set is the set of estimator names (no realized windows) or the
\* cross-product of estimator names and supplied windows.
C7_Original ==
    (EvalDone /\ result.ok) =>
       /\ {RowKey(Rows[i]) : i \in 1..Len(Rows)} = ExpectedKeys
       /\ \A i, j \in 1..Len(Rows) : RowKey(Rows[i]) = RowKey(Rows[j]) => i = j

\* C7 (amended): the returned metrics table holds one row per estimator, or
\* one row per pair of an estimator and an entry of realized_windows, in
\* estimator-major order; its key set is the set of estimator names or the
\* cross-product of estimator names and supplied windows; the rows are one
\* per key when the supplied windows are pairwise distinct.
C7_MetricsKeys ==
    (EvalDone /\ result.ok) =>
       LET cols == args.forecast_var.columns
           W    == IF WindowsGiven THEN Len(WindowList) ELSE 1
       IN  /\ {RowKey(Rows[i]) : i \in 1..Len(Rows)} = ExpectedKeys
           /\ Len(Rows) = Len(cols) * W
           /\ \A j \in 1..Len(cols) : \A i \in 1..W :
                 RowKey(Rows[(j - 1) * W + i])
                   = <<cols[j], IF WindowsGiven THEN <<WindowList[i]>> ELSE <<>>>>
           /\ (WindowsGiven => \A i, j \in 1..W : WindowList[i] = WindowList[j] => i = j)
                 => \A i, j \in 1..Len(Rows) : RowKey(Rows[i]) = RowKey(Rows[j]) => i = j

\* Two estimators scored against two distinct windows: four rows.
C7_Witness ==
    /\ EvalDone
    /\ result.ok
    /\ WindowsGiven
    /\ WindowList = <<1, 2>>
    /\ Len(args.forecast_var.columns) = 2
    /\ Len(Rows) = 4

\* The forecast of estimator col at timestamp ts, scaled as annualize_pred asks.
ScoredForecast(col, ts) ==
    LET raw == Column(args.forecast_var, col).values[PosOf(args.forecast_var.index, ts)]
    IN  IF args.annualize_pred THEN RMul(raw, Num(args.periods_per_year)) ELSE raw

\* C8: with annualize_pred every forecast variance enters the metrics
\* multiplied by periods_per_year, with or without realized windows; without
\* annualize_pred it enters unscaled.
C8_AnnualizePred ==
    (EvalDone /\ result.ok) =>
       \A i \in 1..Len(Rows) :
          /\ \A q \in 1..Len(Rows[i].qlike.terms) :
                Rows[i].qlike.terms[q].left
                  = ClipEps(ScoredForecast(Rows[i].model, Rows[i].qlike.terms[q].ts))
          /\ \A q \in 1..Len(Rows[i].mae_vol.terms) :
                Rows[i].mae_vol.terms[q].left
                  = Sqrt(ScoredForecast(Rows[i].model, Rows[i].mae_vol.terms[q].ts))

\* The realized variance the scoring refers to at timestamp ts of the return
\* series: the squared return, or the windowed realized variance.
RealizedAt(win, ts) ==
    IF win = <<>> THEN RSq(args.returns.values[PosOf(args.returns.index, ts)])
    ELSE Column(windowed_realized_variance(args.returns, win, args.periods_per_year).value,
                win[1]).values[PosOf(args.returns.index, ts)]

SharedTimestamps ==
    {ts \in Range(args.forecast_var.index) : HasLabel(args.returns.index, ts)}

\* C9: inner alignment.  Each metric is computed over exactly the timestamps
\* present in both the forecast table and the return series; a forecast
\* timestamp outside the return series is dropped and does not make the call
\* fail.
C9_InnerAlignment ==
    (EvalDone /\ args.forecast_var.columns # <<>>
        /\ (WindowsGiven => /\ WindowList # <<>>
                            /\ \A j \in 1..Len(WindowList) : WindowList[j] > 0)) =>
       /\ result.ok
       /\ \A i \in 1..Len(Rows) :
             {Rows[i].qlike.terms[q].ts : q \in 1..Len(Rows[i].qlike.terms)}
               = {ts \in SharedTimestamps : ~IsNaN(RealizedAt(Rows[i].window, ts))}

\* ---- log_returns (SpecLR)

\* C10: log_returns raises exactly on an empty price sequence; a non-empty
\* sequence of positive prices gives a sequence of the same length whose
\* first element is undefined.
C10_LogReturnsEmpty ==
    (fn = "log_returns" /\ done) =>
       /\ ~result.ok <=> SLen(args.prices) = 0
       /\ SLen(args.prices) > 0 =>
             /\ result.ok
             /\ SLen(result.value) = SLen(args.prices)
             /\ IsNaN(result.value.values[1].ln_of)

\* ---- variance estimates (SpecHist)
ForecastCallDone ==
    /\ fn \in {"historical.forecast_next_variance", "ewma.forecast_next_variance"}
    /\ done

\* C11: every variance estimate that the rolling or the EWMA
\* forecast_next_variance returns without error is a defined, non-negative
\* real number, whatever the history, for every positive window, every lambda
\* in (0,1) and every starting variance.
C11_NonNegativeEstimate ==
    (ForecastCallDone /\ result.ok
        /\ (fn = "historical.forecast_next_variance" => args.window >= 1)) =>
       /\ ~IsNaN(result.value)
       /\ result.value[1] >= 0

\* ---- forecast-table rows (SpecWF)
\* The number of target indices from start to the end of the return series.
TargetCount == IF SLen(returns) > start THEN SLen(returns) - start ELSE 0

\* C12: forecast-table rows.  The i-th appended row is keyed by the timestamp
\* of returns at target index start + i - 1 and holds the estimators'
\* forecasts for that index, in every state after it was appended (so no later
\* iteration changes it); the keys are strictly increasing, hence distinct;
\* and the returned table has exactly one row per target index from start to
\* the end of the return series.
C12_ForecastRows ==
    /\ \A i \in 1..Len(index) :
          /\ index[i] = returns.index[start + i]
          /\ \A j \in 1..Len(model_funcs) :
                forecasts[j][i]
                  = CallFunc(model_funcs[j],
                             TrainSlice(returns, start + i - 1, expanding, window)).value
    /\ \A i \in 1..(Len(index) - 1) : index[i] < index[i + 1]
    /\ Len(index) <= TargetCount
    /\ pc = "returned" =>
          /\ Len(forecast_df) = TargetCount
          /\ \A i \in 1..Len(forecast_df) :
                /\ forecast_df[i].ts = index[i]
                /\ forecast_df[i].row = [j \in 1..Len(model_funcs) |-> forecasts[j][i]]

\* A returned table of at least two rows over a series whose timestamps are
\* not its positions.
C12_Witness ==
    /\ pc = "returned"
    /\ Len(forecast_df) >= 2
    /\ Len(model_funcs) >= 1
    /\ returns.index # RangeIndex(SLen(returns))

\* ---- fixed-window slices (SpecWF)
\* C13: in fixed-window mode every training slice handed to an estimator for
\* target index t is exactly the `window` observations at positions
\* t - window .. t - 1, never a shorter or empty one, and a window that is not
\* positive does not get past the argument check.
C13_FullWindow ==
    (~expanding /\ window # <<>>) =>
       /\ window[1] <= 0 => pc \in {"enter", "raised"}
       /\ \A c \in Range(calls) :
             /\ SLen(c.train) = window[1]
             /\ c.train.index
                  = [i \in 1..window[1] |-> returns.index[c.t - window[1] + i]]

\* ---- C14
\* The series with its last defined value replaced by x.
ReplaceLastValid(s, x) ==
    LET pos  == ValidPos(s.values, 1)
        last == pos[Len(pos)]
    IN  Series(s.index, [i \in 1..SLen(s) |-> IF i = last THEN x ELSE s.values[i]])

\* The series without its last defined value.
DropLastValid(s) ==
    LET pos  == ValidPos(s.values, 1)
        last == pos[Len(pos)]
    IN  Series([i \in 1..(SLen(s) - 1) |-> s.index[IF i < last THEN i ELSE i + 1]],
               [i \in 1..(SLen(s) - 1) |-> s.values[IF i < last THEN i ELSE i + 1]])

OtherReturns == {Num(-1), Num(2), Num(3)}

EwmaForecastDone == fn = "ewma.forecast_next_variance" /\ done /\ result.ok

ValidCount(s) == SLen(DropNa(s))

\* C14: with an explicit initial variance, or more than 10 valid observations,
\* the EWMA forecast over n >= 2 valid observations depends only on the first
\* n-1 valid returns: it is var[n-1] = lam * var[n-2] + (1 - lam) * r[n-2]^2,
\* and replacing the most recent valid return r[n-1] leaves it unchanged.
C14_IgnoresLastReturn ==
    (/\ EwmaForecastDone
     /\ ValidCount(args.returns) >= 2
     /\ (args.initial_variance # <<>> \/ ValidCount(args.returns) > EWMA_INIT_OBS)) =>
        LET clean  == DropNa(args.returns)
            n      == SLen(clean)
            before == ewma_forecast_next_variance(DropLastValid(args.returns),
                                                  args.lam, args.initial_variance)
        IN  /\ \A x \in OtherReturns :
                  ewma_forecast_next_variance(ReplaceLastValid(args.returns, x),
                                              args.lam, args.initial_variance) = result
            /\ before.ok
            /\ result.value = RAdd(RMul(args.lam, before.value),
                                   RMul(RSub(Num(1), args.lam), RSq(clean.values[n - 1])))

C14_Witness ==
    /\ EwmaForecastDone
    /\ args.initial_variance = <<>>
    /\ ValidCount(args.returns) > EWMA_INIT_OBS
    /\ DropNa(args.returns).values[ValidCount(args.returns)] = Num(2)
    /\ DropNa(args.returns).values[ValidCount(args.returns) - 1] = Num(-1)

\* ---- C15
\* The forecast timestamps, in table order, at which the realized variance
\* of the row's window is defined.
DefinedTimestamps(win) ==
    LET defined(ts) == ~IsNaN(RealizedAt(win, ts))
    IN  SelectSeq(args.forecast_var.index, defined)

\* The forecast as evaluate_forecasts hands it to the metrics: multiplied by
\* periods_per_year only on the realized-windows path (lines 144, 148).
AppliedForecast(col, ts) ==
    LET raw == Column(args.forecast_var, col).values[PosOf(args.forecast_var.index, ts)]
    IN  IF args.annualize_pred /\ WindowsGiven THEN RMul(raw, Num(args.periods_per_year))
        ELSE raw

TermTimestamps(terms) == [q \in 1..Len(terms) |-> terms[q].ts]

\* Every forecast timestamp is a label of the return series, there is an
\* estimator column, and the realized windows, if given, are positive.
Scorable ==
    /\ \A i \in 1..Len(args.forecast_var.index) :
          HasLabel(args.returns.index, args.forecast_var.index[i])
    /\ args.forecast_var.columns # <<>>
    /\ WindowsGiven => /\ WindowList # <<>>
                        /\ \A j \in 1..Len(WindowList) : WindowList[j] > 0

\* C15: a forecast timestamp whose realized variance is undefined (inside the
\* first window, or at the undefined first return) does not make
\* evaluate_forecasts raise and is not filled: every metric of a row is the
\* mean over exactly the timestamps with a defined realized variance, and is
\* undefined when there is none.
C15_UndefinedRealizedSkipped ==
    (EvalDone /\ Scorable) =>
       /\ result.ok
       /\ \A i \in 1..Len(Rows) :
             LET row == Rows[i]
                 D   == DefinedTimestamps(row.window)
             IN  /\ TermTimestamps(row.qlike.terms) = D
                 /\ TermTimestamps(row.mae_vol.terms) = D
                 /\ \A q \in 1..Len(D) :
                       /\ row.qlike.terms[q].right = RealizedAt(row.window, D[q])
                       /\ row.mae_vol.terms[q].right = Sqrt(RealizedAt(row.window, D[q]))
                 /\ row.mse_var =
                       Mean([q \in 1..Len(D) |->
                               RSq(RSub(AppliedForecast(row.model, D[q]),
                                        RealizedAt(row.window, D[q])))])
                 /\ D = <<>> => IsNaN(row.mse_var)

\* A run that scores two forecast rows and averages one row over a single
\* timestamp and another row over none.
C15_Witness ==
    /\ EvalDone /\ Scorable /\ result.ok
    /\ Len(args.forecast_var.index) = 2
    /\ \E i \in 1..Len(Rows) :
          /\ Len(Rows[i].qlike.terms) = 1
          /\ ~IsNaN(Rows[i].mse_var)
    /\ \E i \in 1..Len(Rows) :
          /\ Rows[i].qlike.terms = <<>>
          /\ IsNaN(Rows[i].mse_var)

====
